---- MODULE Spec2Model ----
(***************************************************************************)
(* MindNest backend: analytics aggregation and journaling streak.          *)
(*                                                                         *)
(* Time is an integer count of ticks since the epoch 2024-01-01 00:00 UTC  *)
(* (a Monday); a calendar day has TicksPerDay ticks.  The store holds the  *)
(* rows of the tables mood_logs and journal_entries.  Every request sets   *)
(* `response`; the passing of time clears it, so a response is always read *)
(* together with the store and the clock it was computed from.             *)
(***************************************************************************)
EXTENDS Integers, Sequences, FiniteSets, TLC

VARIABLES now, mood_logs, journal_entries, next_mood_id, next_journal_id, response,
          stress_events, next_stress_id, self_care_activities, next_activity_id,
          users, next_user_id, journal_media, profile_pics, USE_LOCAL_STORAGE

vars == <<now, mood_logs, journal_entries, next_mood_id, next_journal_id, response,
          stress_events, next_stress_id, self_care_activities, next_activity_id,
          users, next_user_id, journal_media, profile_pics, USE_LOCAL_STORAGE>>

stressVars == <<stress_events, next_stress_id>>

careVars == <<self_care_activities, next_activity_id>>

userVars == <<users, next_user_id>>

storageVars == <<journal_media, profile_pics, USE_LOCAL_STORAGE>>

(***************************************************************************)
(* Bounds and input sets                                                   *)
(***************************************************************************)
TicksPerDay == 2
MaxMoodLogs == 2
MaxJournalEntries == 3
MaxStressEvents == 3
MaxRecentMoodLogs == 8
MaxRecActivities == 1
MaxActivities == 7
MaxUsers == 2
MaxAnalyticsRows == 2
MaxCrudRows == 2

MaxMediaFiles == 2

MaxUpdatedEntries == 2

MaxPatchedActivities == 1

UserIds == {1, 2}
MoodLevelInputs == {1, 5}
PeriodInputs == {"day", "week", "month"}
NoResponse == [op |-> "none"]

\* the instant `tick` ticks into day number `day` (day 0 is 2024-01-01)
At(day, tick) == day * TicksPerDay + tick

(***************************************************************************)
(* Calendar: datetime.date / PostgreSQL date(), extract()                  *)
(***************************************************************************)
Epoch == [year |-> 2024, isoweekday |-> 1]

IsLeap(y) == (y % 4 = 0 /\ y % 100 # 0) \/ (y % 400 = 0)

DaysInYear(y) == IF IsLeap(y) THEN 366 ELSE 365

DaysInMonth(y, m) ==
    IF m = 2 THEN (IF IsLeap(y) THEN 29 ELSE 28)
    ELSE IF m \in {4, 6, 9, 11} THEN 30 ELSE 31

\* func.date(ts): the calendar day (a day number) of a timestamp
DateOf(t) == t \div TicksPerDay

RECURSIVE YearFrom(_, _)
YearFrom(d, y) == IF d < DaysInYear(y) THEN y ELSE YearFrom(d - DaysInYear(y), y + 1)

RECURSIVE DayOfYearFrom(_, _)
DayOfYearFrom(d, y) ==
    IF d < DaysInYear(y) THEN d + 1 ELSE DayOfYearFrom(d - DaysInYear(y), y + 1)

\* extract('year', ts): the calendar year
YearOf(d) == YearFrom(d, Epoch.year)

DayOfYear(d) == DayOfYearFrom(d, Epoch.year)

RECURSIVE MonthFrom(_, _, _)
MonthFrom(doy, y, m) ==
    IF doy <= DaysInMonth(y, m) THEN <<m, doy>> ELSE MonthFrom(doy - DaysInMonth(y, m), y, m + 1)

\* extract('month', ts)
MonthOf(d) == MonthFrom(DayOfYear(d), YearOf(d), 1)[1]

DayOfMonth(d) == MonthFrom(DayOfYear(d), YearOf(d), 1)[2]

\* 1 = Monday .. 7 = Sunday
IsoWeekday(d) == ((d + Epoch.isoweekday - 1) % 7) + 1

\* the Thursday of the ISO week of day d
IsoThursday(d) == d - (IsoWeekday(d) - 1) + 3

\* extract('week', ts): PostgreSQL's ISO 8601 week number
WeekOf(d) == ((DayOfYear(IsoThursday(d)) - 1) \div 7) + 1

\* the ISO 8601 week-numbering year (PostgreSQL's 'isoyear')
IsoYearOf(d) == YearOf(IsoThursday(d))

\* str(date): 'YYYY-MM-DD'
DateStr(d) == <<YearOf(d), MonthOf(d), DayOfMonth(d)>>

(***************************************************************************)
(* Sequence helpers for SQL DISTINCT / ORDER BY                            *)
(***************************************************************************)
RemoveAt(s, i) == SubSeq(s, 1, i - 1) \o SubSeq(s, i + 1, Len(s))

\* the rows of a table in primary-key order
RECURSIVE RowsById(_)
RowsById(S) ==
    IF S = {} THEN <<>>
    ELSE LET r == CHOOSE x \in S : \A y \in S : x.id <= y.id
         IN <<r>> \o RowsById(S \ {r})

DistinctKeepAll(s) == s

\* SELECT DISTINCT: every value once
RECURSIVE Distinct(_)
Distinct(s) ==
    IF s = <<>> THEN <<>>
    ELSE LET r == Distinct(SubSeq(s, 1, Len(s) - 1))
             x == s[Len(s)]
         IN IF \E j \in 1..Len(r) : r[j] = x THEN r ELSE Append(r, x)

\* ORDER BY ... DESC on integers (day numbers)
RECURSIVE SortDesc(_)
SortDesc(s) ==
    IF s = <<>> THEN <<>>
    ELSE LET i == CHOOSE k \in 1..Len(s) : \A j \in 1..Len(s) : s[j] <= s[k]
         IN <<s[i]>> \o SortDesc(RemoveAt(s, i))

\* ORDER BY ... ASC on integers
RECURSIVE SortAsc(_)
SortAsc(s) ==
    IF s = <<>> THEN <<>>
    ELSE LET i == CHOOSE k \in 1..Len(s) : \A j \in 1..Len(s) : s[k] <= s[j]
         IN <<s[i]>> \o SortAsc(RemoveAt(s, i))

MapDate(rows, field) == [i \in 1..Len(rows) |-> DateOf(rows[i][field])]

(***************************************************************************)
(* Journaling streak (crud/mental_health.py get_journaling_streak)         *)
(***************************************************************************)
JournalDateRowsAnyUser(entries, user_id) == MapDate(RowsById(entries), "created_at")

\* func.date(JournalEntry.created_at) of the rows with JournalEntry.user_id == user_id
JournalDateRows(entries, user_id) ==
    MapDate(RowsById({e \in entries : e.user_id = user_id}), "created_at")

\* .distinct().order_by(func.date(created_at).desc()).all()
journal_dates(entries, user_id) == SortDesc(Distinct(JournalDateRows(entries, user_id)))

RECURSIVE StreakWalkNoBreak(_, _, _)
StreakWalkNoBreak(dates, i, streak) ==
    IF i > Len(dates) - 1 THEN streak
    ELSE IF dates[i] - dates[i + 1] = 1
         THEN StreakWalkNoBreak(dates, i + 1, streak + 1)
         ELSE StreakWalkNoBreak(dates, i + 1, streak)

\* for i in range(len(dates) - 1): consecutive -> += 1, else break
RECURSIVE StreakWalk(_, _, _)
StreakWalk(dates, i, streak) ==
    IF i > Len(dates) - 1 THEN streak
    ELSE IF dates[i] - dates[i + 1] = 1
         THEN StreakWalk(dates, i + 1, streak + 1)
         ELSE streak

\* the length of the longest run of consecutive day numbers in a sorted list
RECURSIVE LongestWalk(_, _, _, _)
LongestWalk(dates, i, run, best) ==
    IF i > Len(dates) - 1 THEN (IF run > best THEN run ELSE best)
    ELSE IF dates[i] - dates[i + 1] = 1
         THEN LongestWalk(dates, i + 1, run + 1, best)
         ELSE LongestWalk(dates, i + 1, 1, IF run > best THEN run ELSE best)

StreakResult(c, l) == [current_streak |-> c, longest_streak |-> l]

get_journaling_streak_late(entries, user_id, t) ==
    LET dates == journal_dates(entries, user_id)
        today == DateOf(t)
    IN IF dates = <<>> THEN StreakResult(0, 0)
       ELSE IF dates[1] # today /\ dates[1] # today - 1 /\ dates[1] # today - 2
            THEN StreakResult(0, 0)
       ELSE LET current_streak == StreakWalk(dates, 1, 1)
            IN StreakResult(current_streak, current_streak)

get_journaling_streak_scan(entries, user_id, t) ==
    LET dates == journal_dates(entries, user_id)
        today == DateOf(t)
    IN IF dates = <<>> THEN StreakResult(0, 0)
       ELSE IF dates[1] # today /\ dates[1] # today - 1
            THEN StreakResult(0, LongestWalk(dates, 1, 1, 0))
       ELSE StreakResult(StreakWalk(dates, 1, 1), LongestWalk(dates, 1, 1, 0))

get_journaling_streak(entries, user_id, t) ==
    LET dates == journal_dates(entries, user_id)
        today == DateOf(t)
    IN IF dates = <<>> THEN StreakResult(0, 0)
       ELSE IF dates[1] # today /\ dates[1] # today - 1
            THEN StreakResult(0, 0)
       ELSE LET current_streak == StreakWalk(dates, 1, 1)
            IN StreakResult(current_streak, current_streak)

(***************************************************************************)
(* Mood trend (crud/mental_health.py get_mood_trend)                       *)
(***************************************************************************)
RECURSIVE Gcd(_, _)
Gcd(a, b) == IF b = 0 THEN a ELSE Gcd(b, a % b)

RECURSIVE SumMood(_)
SumMood(S) ==
    IF S = {} THEN 0
    ELSE LET l == CHOOSE x \in S : TRUE IN l.mood_level + SumMood(S \ {l})

\* float(func.avg(MoodLog.mood_level)) of a non-empty group: the exact quotient
\* sum / count, kept as a fraction in lowest terms
AvgMood(S) ==
    LET sum == SumMood(S)
        n == Cardinality(S)
        g == Gcd(n, sum)
    IN [num |-> sum \div g, den |-> n \div g]

MoodRowsAnyUser(logs, user_id, start_date) == {l \in logs : l.logged_at >= start_date}

MoodRowsNoWindow(logs, user_id, start_date) == {l \in logs : l.user_id = user_id}

\* .filter(MoodLog.user_id == user_id, MoodLog.logged_at >= start_date)
MoodRows(logs, user_id, start_date) ==
    {l \in logs : l.user_id = user_id /\ l.logged_at >= start_date}

\* ORDER BY 'year', 'week' / 'year', 'month': pairs in lexicographic order
PairLess(a, b) == a[1] < b[1] \/ (a[1] = b[1] /\ a[2] < b[2])

RECURSIVE SortPairs(_)
SortPairs(S) ==
    IF S = {} THEN <<>>
    ELSE LET m == CHOOSE x \in S : \A y \in S : ~PairLess(y, x)
         IN <<m>> \o SortPairs(S \ {m})

\* the GROUP BY expression of each period
DayKey(l) == DateOf(l.logged_at)

WeekKey(l) == <<YearOf(DateOf(l.logged_at)), WeekOf(DateOf(l.logged_at))>>

MonthKey(l) == <<YearOf(DateOf(l.logged_at)), MonthOf(DateOf(l.logged_at))>>

SetToSeq(S) == RowsById({[id |-> x] : x \in S})

get_mood_trend_month_by_default(logs, user_id, period, days, t) ==
    LET start_date == t - days * TicksPerDay
        rows == MoodRows(logs, user_id, start_date)
        result == SortPairs({MonthKey(l) : l \in rows})
    IN [i \in 1..Len(result) |->
           [year_month |-> result[i],
            average_mood |-> AvgMood({l \in rows : MonthKey(l) = result[i]})]]

get_mood_trend(logs, user_id, period, days, t) ==
    LET start_date == t - days * TicksPerDay
        rows == MoodRows(logs, user_id, start_date)
    IN IF period = "day" THEN
           LET ids == SetToSeq({DayKey(l) : l \in rows})
               result == SortAsc([i \in 1..Len(ids) |-> ids[i].id])
           IN [i \in 1..Len(result) |->
                  [date |-> DateStr(result[i]),
                   average_mood |-> AvgMood({l \in rows : DayKey(l) = result[i]})]]
       ELSE IF period = "week" THEN
           LET result == SortPairs({WeekKey(l) : l \in rows})
           IN [i \in 1..Len(result) |->
                  [year_week |-> result[i],
                   average_mood |-> AvgMood({l \in rows : WeekKey(l) = result[i]})]]
       ELSE IF period = "month" THEN
           LET result == SortPairs({MonthKey(l) : l \in rows})
           IN [i \in 1..Len(result) |->
                  [year_month |-> result[i],
                   average_mood |-> AvgMood({l \in rows : MonthKey(l) = result[i]})]]
       ELSE <<>>

TypeOK ==
    /\ now \in Int
    /\ next_mood_id \in Nat
    /\ next_journal_id \in Nat

Init ==
    /\ now = At(0, 0)
    /\ mood_logs = {}
    /\ journal_entries = {}
    /\ next_mood_id = 1
    /\ next_journal_id = 1
    /\ response = NoResponse
    /\ stress_events = {}
    /\ next_stress_id = 1
    /\ self_care_activities = {}
    /\ next_activity_id = 1
    /\ users = {}
    /\ next_user_id = 1
    /\ journal_media = {}
    /\ profile_pics = {}
    /\ USE_LOCAL_STORAGE = FALSE

(***************************************************************************)
(* The clock: time passes to a later instant at which a request arrives    *)
(***************************************************************************)
StreakInstants ==
    {At(0, 1), At(364, 0), At(364, 1), At(365, 0), At(366, 0), At(367, 0), At(368, 1)}

Tick(instants) ==
    /\ \E t \in instants : t > now /\ now' = t
    /\ response' = NoResponse
    /\ UNCHANGED <<mood_logs, journal_entries, next_mood_id, next_journal_id, stressVars,
                   careVars, userVars, storageVars>>

(***************************************************************************)
(* Journal endpoints (api/endpoints/journal.py, crud/journal.py)           *)
(***************************************************************************)
JournalContents == {"c1"}

get_journal_entry_any_user(entries, journal_id, user_id) ==
    {e \in entries : e.id = journal_id}

get_journal_entry(entries, journal_id, user_id) ==
    {e \in entries : e.id = journal_id /\ e.user_id = user_id}

create_journal(user_id, content) ==
    /\ next_journal_id <= MaxJournalEntries
    /\ LET db_journal == [id |-> next_journal_id, user_id |-> user_id, content |-> content,
                          created_at |-> now, updated_at |-> now]
       IN /\ journal_entries' = journal_entries \cup {db_journal}
          /\ response' = [op |-> "create_journal", user_id |-> user_id, status |-> 201,
                          result |-> db_journal]
    /\ next_journal_id' = next_journal_id + 1
    /\ UNCHANGED <<now, mood_logs, next_mood_id, stressVars, careVars, userVars, storageVars>>

delete_journal(user_id, journal_id) ==
    LET found == get_journal_entry(journal_entries, journal_id, user_id)
    IN /\ IF found = {}
          THEN /\ response' = [op |-> "delete_journal", user_id |-> user_id, id |-> journal_id,
                               status |-> 404,
                               result |-> "Journal entry not found"]
               /\ UNCHANGED journal_entries
          ELSE /\ journal_entries' = journal_entries \ found
               /\ response' = [op |-> "delete_journal", user_id |-> user_id, id |-> journal_id,
                               status |-> 200,
                               result |-> CHOOSE e \in found : TRUE]
       /\ UNCHANGED <<now, mood_logs, next_mood_id, next_journal_id, stressVars, careVars,
                      userVars, storageVars>>

\* GET /analytics/journaling-streak
journaling_streak(user_id) ==
    /\ response' = [op |-> "get_journaling_streak", user_id |-> user_id, status |-> 200,
                    result |-> get_journaling_streak(journal_entries, user_id, now)]
    /\ UNCHANGED <<now, mood_logs, journal_entries, next_mood_id, next_journal_id, stressVars,
                   careVars, userVars, storageVars>>

NextStreak ==
    \/ Tick(StreakInstants)
    \/ \E u \in UserIds, c \in JournalContents : create_journal(u, c)
    \/ \E u \in UserIds, j \in 1..MaxJournalEntries : delete_journal(u, j)
    \/ \E u \in UserIds : journaling_streak(u)

SpecStreak == Init /\ [][NextStreak]_vars

(***************************************************************************)
(* Journaling streak: properties                                           *)
(***************************************************************************)
\* the distinct calendar days on which the user created a journal entry
JournalDaySet(user_id) ==
    {DateOf(e.created_at) : e \in {x \in journal_entries : x.user_id = user_id}}

SetMax(S) == CHOOSE x \in S : \A y \in S : y <= x

\* the number of days of the maximal run of consecutive days of S that ends at day d
RunEndingAt(S, d) ==
    CHOOSE k \in 1..Cardinality(S) :
        /\ \A i \in 0..(k - 1) : (d - i) \in S
        /\ (d - k) \notin S

LongestRun(S) ==
    IF S = {} THEN 0 ELSE SetMax({RunEndingAt(S, d) : d \in S})

StreakAnswered == response.op = "get_journaling_streak"

\* C1: when the most recent journal date is today or yesterday, current_streak is
\* the length of the maximal run of consecutive calendar days ending at that date.
C1_CurrentStreakIsTrailingRun ==
    StreakAnswered =>
        LET S == JournalDaySet(response.user_id)
        IN (S # {} /\ SetMax(S) \in {DateOf(now), DateOf(now) - 1}) =>
               response.result.current_streak = RunEndingAt(S, SetMax(S))

C1_Witness ==
    /\ StreakAnswered
    /\ response.result.current_streak = 3
    /\ SetMax(JournalDaySet(response.user_id)) = DateOf(now) - 1

C3_NoEntriesIsZero ==
    StreakAnswered =>
        ({e \in journal_entries : e.user_id = response.user_id} = {} =>
            /\ response.status = 200
            /\ response.result = StreakResult(0, 0))

C3_Witness ==
    /\ StreakAnswered
    /\ {e \in journal_entries : e.user_id = response.user_id} = {}
    /\ \E e \in journal_entries : DateOf(e.created_at) = DateOf(now)
    /\ response.result = StreakResult(0, 0)

\* C4: creating a further entry on a date on which the user already has an
\* entry leaves the user's current_streak and longest_streak unchanged.
C4_SameDayEntryKeepsStreak ==
    [][\A e \in journal_entries' \ journal_entries :
          (\E f \in journal_entries :
               f.user_id = e.user_id /\ DateOf(f.created_at) = DateOf(e.created_at))
          => get_journaling_streak(journal_entries', e.user_id, now')
                 = get_journaling_streak(journal_entries, e.user_id, now)]_vars

C4_Witness ==
    /\ response.op = "create_journal"
    /\ \E f \in journal_entries :
          /\ f.id # response.result.id
          /\ f.user_id = response.user_id
          /\ DateOf(f.created_at) = DateOf(response.result.created_at)
    /\ get_journaling_streak(journal_entries, response.user_id, now).current_streak = 2

C6_LongestIsLongestRun ==
    StreakAnswered =>
        response.result.longest_streak = LongestRun(JournalDaySet(response.user_id))

(***************************************************************************)
(* Mood endpoints (api/endpoints/moods.py) and GET /analytics/mood-trend   *)
(***************************************************************************)
MoodInstants == {At(7, 0), At(364, 0), At(364, 1), At(365, 1), At(366, 0)}

MinDays == 1
MaxDays == 365
DaysInputs == {MinDays, MaxDays}
NoteInputs == {"null"}

get_mood_log(logs, mood_log_id, user_id) ==
    {l \in logs : l.id = mood_log_id /\ l.user_id = user_id}

create_mood_log(user_id, mood_level, note) ==
    /\ LET db_mood_log == [id |-> next_mood_id, user_id |-> user_id,
                           mood_level |-> mood_level, note |-> note, logged_at |-> now]
       IN /\ mood_logs' = mood_logs \cup {db_mood_log}
          /\ response' = [op |-> "create_mood_log", user_id |-> user_id, status |-> 200,
                          result |-> db_mood_log]
    /\ next_mood_id' = next_mood_id + 1
    /\ UNCHANGED <<now, journal_entries, next_journal_id, stressVars, careVars, userVars,
                   storageVars>>

delete_mood_log_uncommitted(user_id, mood_log_id) ==
    LET found == get_mood_log(mood_logs, mood_log_id, user_id)
    IN /\ IF found = {}
          THEN /\ response' = [op |-> "delete_mood_log", user_id |-> user_id, id |-> mood_log_id,
                               status |-> 404,
                               result |-> "Mood log not found"]
               /\ UNCHANGED mood_logs
          ELSE /\ mood_logs' = mood_logs
               /\ response' = [op |-> "delete_mood_log", user_id |-> user_id, id |-> mood_log_id,
                               status |-> 200,
                               result |-> CHOOSE l \in found : TRUE]
       /\ UNCHANGED <<now, journal_entries, next_mood_id, next_journal_id, stressVars,
                      careVars, userVars, storageVars>>

delete_mood_log(user_id, mood_log_id) ==
    LET found == get_mood_log(mood_logs, mood_log_id, user_id)
    IN /\ IF found = {}
          THEN /\ response' = [op |-> "delete_mood_log", user_id |-> user_id, id |-> mood_log_id,
                               status |-> 404,
                               result |-> "Mood log not found"]
               /\ UNCHANGED mood_logs
          ELSE /\ mood_logs' = mood_logs \ found
               /\ response' = [op |-> "delete_mood_log", user_id |-> user_id, id |-> mood_log_id,
                               status |-> 200,
                               result |-> CHOOSE l \in found : TRUE]
       /\ UNCHANGED <<now, journal_entries, next_mood_id, next_journal_id, stressVars,
                      careVars, userVars, storageVars>>

mood_trend_pruning(user_id, period, days) ==
    /\ period \in PeriodInputs
    /\ days >= MinDays /\ days <= MaxDays
    /\ response' = [op |-> "get_mood_trend", user_id |-> user_id, status |-> 200,
                    period |-> period, days |-> days,
                    result |-> get_mood_trend(mood_logs, user_id, period, days, now)]
    /\ mood_logs' = {l \in mood_logs : \/ l.user_id # user_id
                                      \/ l.logged_at >= now - days * TicksPerDay}
    /\ UNCHANGED <<now, journal_entries, next_mood_id, next_journal_id, stressVars,
                   careVars, userVars, storageVars>>

\* GET /analytics/mood-trend?period=..&days=..
mood_trend(user_id, period, days) ==
    /\ period \in PeriodInputs
    /\ days >= MinDays /\ days <= MaxDays
    /\ response' = [op |-> "get_mood_trend", user_id |-> user_id, status |-> 200,
                    period |-> period, days |-> days,
                    result |-> get_mood_trend(mood_logs, user_id, period, days, now)]
    /\ UNCHANGED <<now, mood_logs, journal_entries, next_mood_id, next_journal_id, stressVars,
                   careVars, userVars, storageVars>>

NextMood ==
    \/ Tick(MoodInstants)
    \/ /\ next_mood_id <= MaxMoodLogs
       /\ \E u \in UserIds, m \in MoodLevelInputs, n \in NoteInputs : create_mood_log(u, m, n)
    \/ \E u \in UserIds, i \in 1..MaxMoodLogs : delete_mood_log(u, i)
    \/ \E u \in UserIds, p \in PeriodInputs, d \in DaysInputs : mood_trend(u, p, d)

SpecMood == Init /\ [][NextMood]_vars

(***************************************************************************)
(* Mood trend: properties                                                  *)
(***************************************************************************)
TrendAnswered == response.op = "get_mood_trend"

\* the user's samples with logged_at >= now - days
InWindow ==
    {l \in mood_logs : l.user_id = response.user_id
                       /\ l.logged_at >= now - response.days * TicksPerDay}

\* the bucket of a sample: its calendar date, its (ISO year, ISO week), or its
\* (calendar year, calendar month)
Bucket(period, l) ==
    LET d == DateOf(l.logged_at)
    IN IF period = "day" THEN DateStr(d)
       ELSE IF period = "week" THEN <<IsoYearOf(d), WeekOf(d)>>
       ELSE <<YearOf(d), MonthOf(d)>>

\* the bucket label of a returned entry
Label(period, e) ==
    IF period = "day" THEN e.date
    ELSE IF period = "week" THEN e.year_week
    ELSE e.year_month

OneEntryPerBucketInOrder ==
    LET p == response.period
        r == response.result
    IN /\ {Label(p, r[i]) : i \in 1..Len(r)} = {Bucket(p, l) : l \in InWindow}
       /\ \A i, j \in 1..Len(r) : i < j => Label(p, r[i]) # Label(p, r[j])
       /\ \A i, j \in 1..Len(r) : i < j =>
              \A a, b \in InWindow :
                  (Bucket(p, a) = Label(p, r[i]) /\ Bucket(p, b) = Label(p, r[j]))
                      => a.logged_at < b.logged_at

\* C7: for each period and lookback the result has exactly one entry per bucket
\* holding an in-window sample, none for any other bucket, in chronologically
\* ascending order.
C7_OneEntryPerBucketAscending == TrendAnswered => OneEntryPerBucketInOrder

\* the same for the periods day and month alone, where the buckets are grouped as stated
C7_DayMonthOnly == (TrendAnswered /\ response.period # "week") => OneEntryPerBucketInOrder

MeanOfBucket ==
    LET p == response.period
        r == response.result
    IN \A i \in 1..Len(r) :
           LET B == {l \in InWindow : Bucket(p, l) = Label(p, r[i])}
           IN r[i].average_mood.num * Cardinality(B) = SumMood(B) * r[i].average_mood.den

\* C8: in every entry, average_mood times the number of in-window samples of the
\* entry's bucket equals the sum of their mood_level values.
C8_AverageIsMeanOfBucket == TrendAnswered => MeanOfBucket

\* the mean of the bucket for the periods day and month alone
C8_DayMonthOnly == (TrendAnswered /\ response.period # "week") => MeanOfBucket

\* C9: with period=week two in-window samples are in the same entry if and only
\* if they have the same ISO year and the same ISO week number.
C9_WeekGroupsByIsoWeek ==
    (TrendAnswered /\ response.period = "week") =>
        \A a, b \in InWindow :
            (\E i \in 1..Len(response.result) :
                 /\ response.result[i].year_week = WeekKey(a)
                 /\ response.result[i].year_week = WeekKey(b))
            <=> (/\ IsoYearOf(DateOf(a.logged_at)) = IsoYearOf(DateOf(b.logged_at))
                 /\ WeekOf(DateOf(a.logged_at)) = WeekOf(DateOf(b.logged_at)))

\* C10: with no sample of the user inside the window the result is the empty
\* sequence with status 200, for each period.
C10_EmptyWindowEmptyTrend ==
    TrendAnswered => (InWindow = {} => (response.status = 200 /\ response.result = <<>>))

C10_Witness ==
    /\ TrendAnswered
    /\ InWindow = {}
    /\ \E l \in mood_logs : l.user_id = response.user_id
    /\ \E l \in mood_logs : l.user_id # response.user_id /\ l.logged_at = now
    /\ response.result = <<>>

(***************************************************************************)
(* Stress events (api/endpoints/stress.py) and GET /analytics/stress-patterns *)
(***************************************************************************)
\* Python None / SQL NULL
None == "None"

\* POST /stress requests: <<current user, trigger_tag, intensity>>
StressRequests ==
    {<<1, "Work", 8>>, <<1, "Work", 4>>, <<1, "Personal", 4>>, <<1, None, 8>>,
     <<2, "Work", 8>>, <<2, None, 4>>}

DescriptionInputs == {"d"}

StressInstants == {At(1, 0), At(2, 0)}

RECURSIVE SumIntensity(_)
SumIntensity(S) ==
    IF S = {} THEN 0
    ELSE LET e == CHOOSE x \in S : TRUE IN e.intensity + SumIntensity(S \ {e})

\* float(func.avg(StressEvent.intensity)) of a non-empty group, as a fraction
\* in lowest terms
AvgIntensity(S) ==
    LET sum == SumIntensity(S)
        n == Cardinality(S)
        g == Gcd(n, sum)
    IN [num |-> sum \div g, den |-> n \div g]

StressRowsWithNull(events, user_id, start_date) ==
    {e \in events : e.user_id = user_id /\ e.timestamp >= start_date}

StressRowsNoWindow(events, user_id, start_date) ==
    {e \in events : e.user_id = user_id /\ e.trigger_tag # None}

\* .filter(user_id == user_id, timestamp >= start_date, trigger_tag != None)
StressRows(events, user_id, start_date) ==
    {e \in events : /\ e.user_id = user_id
                    /\ e.timestamp >= start_date
                    /\ e.trigger_tag # None}

\* .group_by(StressEvent.trigger_tag): one row per tag, with count and avg
StressGroups(rows) ==
    {[trigger_tag |-> tag,
      frequency |-> Cardinality({e \in rows : e.trigger_tag = tag}),
      average_intensity |-> AvgIntensity({e \in rows : e.trigger_tag = tag})]
        : tag \in {e.trigger_tag : e \in rows}}

\* all the orders in which the rows of a set can be listed
Orderings(S) ==
    {s \in [1..Cardinality(S) -> S] : \A i, j \in 1..Cardinality(S) : i # j => s[i] # s[j]}

OrderByFrequencyAsc(groups) ==
    {s \in Orderings(groups) :
        \A i, j \in 1..Len(s) : i < j => s[i].frequency <= s[j].frequency}

\* .order_by(func.count(StressEvent.id).desc()): the order of rows of equal
\* count is left to the database
OrderByFrequencyDesc(groups) ==
    {s \in Orderings(groups) :
        \A i, j \in 1..Len(s) : i < j => s[i].frequency >= s[j].frequency}

\* the results the query can give
get_stress_patterns(events, user_id, days, t) ==
    LET start_date == t - days * TicksPerDay
    IN OrderByFrequencyDesc(StressGroups(StressRows(events, user_id, start_date)))

create_stress_event(user_id, description, trigger_tag, intensity) ==
    /\ next_stress_id <= MaxStressEvents
    /\ LET db_stress_event == [id |-> next_stress_id, user_id |-> user_id,
                               description |-> description, trigger_tag |-> trigger_tag,
                               intensity |-> intensity, timestamp |-> now]
       IN /\ stress_events' = stress_events \cup {db_stress_event}
          /\ response' = [op |-> "create_stress_event", user_id |-> user_id, status |-> 200,
                          result |-> db_stress_event]
    /\ next_stress_id' = next_stress_id + 1
    /\ UNCHANGED <<now, mood_logs, journal_entries, next_mood_id, next_journal_id, careVars,
                   userVars, storageVars>>

\* GET /analytics/stress-patterns?days=..
stress_patterns(user_id, days) ==
    /\ days >= MinDays /\ days <= MaxDays
    /\ \E r \in get_stress_patterns(stress_events, user_id, days, now) :
           response' = [op |-> "get_stress_patterns", user_id |-> user_id, status |-> 200,
                        days |-> days, result |-> r]
    /\ UNCHANGED <<now, mood_logs, journal_entries, next_mood_id, next_journal_id,
                   stressVars, careVars, userVars, storageVars>>

NextStress ==
    \/ Tick(StressInstants)
    \/ \E q \in StressRequests, d \in DescriptionInputs :
           create_stress_event(q[1], d, q[2], q[3])
    \/ \E u \in UserIds, d \in DaysInputs : stress_patterns(u, d)

SpecStress == Init /\ [][NextStress]_vars

(***************************************************************************)
(* Stress patterns: properties                                             *)
(***************************************************************************)
PatternsAnswered == response.op = "get_stress_patterns"

\* the user's stress events with timestamp >= now - days and a trigger tag
TaggedInWindow ==
    {e \in stress_events : /\ e.user_id = response.user_id
                           /\ e.timestamp >= now - response.days * TicksPerDay
                           /\ e.trigger_tag # None}

RECURSIVE SumFrequency(_, _)
SumFrequency(r, i) == IF i > Len(r) THEN 0 ELSE r[i].frequency + SumFrequency(r, i + 1)

\* C11: no returned entry has a null trigger_tag, and the frequencies add up to
\* the number of the user's in-window events that have a trigger tag.
C11_NoNullTagAndFrequencySum ==
    PatternsAnswered =>
        /\ \A i \in 1..Len(response.result) : response.result[i].trigger_tag # None
        /\ SumFrequency(response.result, 1) = Cardinality(TaggedInWindow)

C11_Witness ==
    /\ PatternsAnswered
    /\ Cardinality(TaggedInWindow) = 1
    /\ \E e \in stress_events :
          /\ e.user_id = response.user_id
          /\ e.trigger_tag = None
          /\ e.timestamp >= now - response.days * TicksPerDay
    /\ \E e \in stress_events :
          /\ e.user_id = response.user_id
          /\ e.timestamp < now - response.days * TicksPerDay

\* C12: the entries are ordered by frequency descending: of two adjacent entries
\* the earlier has a frequency greater than or equal to the later.
C12_FrequencyDescending ==
    PatternsAnswered =>
        \A i \in 1..(Len(response.result) - 1) :
            response.result[i].frequency >= response.result[i + 1].frequency

C12_Witness ==
    /\ PatternsAnswered
    /\ Len(response.result) = 2
    /\ response.result[1].trigger_tag = "Work"
    /\ response.result[1].frequency = 2
    /\ response.result[2].trigger_tag = "Personal"
    /\ response.result[2].frequency = 1

\* C13: exactly one entry per distinct trigger tag of the in-window events, with
\* frequency the number of those events and average_intensity their mean.
C13_OneEntryPerTagCountAndMean ==
    PatternsAnswered =>
        LET r == response.result
        IN /\ {r[i].trigger_tag : i \in 1..Len(r)} = {e.trigger_tag : e \in TaggedInWindow}
           /\ \A i, j \in 1..Len(r) : i # j => r[i].trigger_tag # r[j].trigger_tag
           /\ \A i \in 1..Len(r) :
                  LET G == {e \in TaggedInWindow : e.trigger_tag = r[i].trigger_tag}
                  IN /\ r[i].frequency = Cardinality(G)
                     /\ r[i].average_intensity.num * Cardinality(G)
                            = SumIntensity(G) * r[i].average_intensity.den

C13_Witness ==
    /\ PatternsAnswered
    /\ Len(response.result) = 1
    /\ response.result[1].trigger_tag = "Work"
    /\ response.result[1].frequency = 2
    /\ response.result[1].average_intensity = [num |-> 6, den |-> 1]
    /\ \E e \in stress_events :
          /\ e.user_id = response.user_id
          /\ e.trigger_tag # None
          /\ e.timestamp < now - response.days * TicksPerDay

(***************************************************************************)
(* Self-care activities (api/endpoints/self_care.py)                       *)
(***************************************************************************)
\* Python True / False
True == "True"
False == "False"

\* a nullable DateTime column holds <<>> (NULL) or <<t>>
NullTime == <<>>

\* PATCH payloads as model_dump(exclude_unset=True) gives them: the fields sent
CompletionUpdates == {[is_completed |-> True], [is_completed |-> False]}

get_self_care_activity(activities, activity_id, user_id) ==
    {a \in activities : a.id = activity_id /\ a.user_id = user_id}

\* the rows of a set that were created last
LatestCreated(S) == {x \in S : \A y \in S : x.created_at >= y.created_at}

\* ORDER BY created_at DESC LIMIT limit: every list the database can return;
\* rows of equal created_at come in any order
RECURSIVE OrderByCreatedAtDescLimit(_, _)
OrderByCreatedAtDescLimit(S, limit) ==
    IF S = {} \/ limit = 0 THEN {<<>>}
    ELSE UNION {{<<x>> \o rest : rest \in OrderByCreatedAtDescLimit(S \ {x}, limit - 1)}
                    : x \in LatestCreated(S)}

get_self_care_activities_any_state(activities, user_id, completed, limit) ==
    OrderByCreatedAtDescLimit({a \in activities : a.user_id = user_id}, limit)

\* skip = 0, scheduled_after = None
get_self_care_activities_by_user(activities, user_id, completed, limit) ==
    LET rows == {a \in activities :
                    /\ a.user_id = user_id
                    /\ completed # None => a.is_completed = completed}
    IN OrderByCreatedAtDescLimit(rows, limit)

update_self_care_activity_restamped(db_activity, update_data, t) ==
    LET stamped == IF /\ "is_completed" \in DOMAIN update_data
                      /\ update_data.is_completed = True
                   THEN [db_activity EXCEPT !.completed_at = <<t>>]
                   ELSE IF /\ "is_completed" \in DOMAIN update_data
                           /\ update_data.is_completed = False
                        THEN [db_activity EXCEPT !.completed_at = NullTime]
                        ELSE db_activity
    IN [key \in DOMAIN stamped |->
            IF key \in DOMAIN update_data THEN update_data[key] ELSE stamped[key]]

\* crud update_self_care_activity on the row found
update_self_care_activity(db_activity, update_data, t) ==
    LET stamped == IF /\ "is_completed" \in DOMAIN update_data
                      /\ update_data.is_completed = True
                      /\ db_activity.is_completed # True
                   THEN [db_activity EXCEPT !.completed_at = <<t>>]
                   ELSE IF /\ "is_completed" \in DOMAIN update_data
                           /\ update_data.is_completed = False
                        THEN [db_activity EXCEPT !.completed_at = NullTime]
                        ELSE db_activity
    IN [key \in DOMAIN stamped |->
            IF key \in DOMAIN update_data THEN update_data[key] ELSE stamped[key]]

create_self_care_activity(user_id, name, description) ==
    /\ LET db_activity == [id |-> next_activity_id, user_id |-> user_id, name |-> name,
                           description |-> description, is_completed |-> False,
                           scheduled_for |-> NullTime, completed_at |-> NullTime,
                           created_at |-> now]
       IN /\ self_care_activities' = self_care_activities \cup {db_activity}
          /\ response' = [op |-> "create_self_care_activity", user_id |-> user_id,
                          status |-> 200, result |-> db_activity]
    /\ next_activity_id' = next_activity_id + 1
    /\ UNCHANGED <<now, mood_logs, journal_entries, next_mood_id, next_journal_id, stressVars,
                   userVars, storageVars>>

\* response_model=schemas.SelfCareActivity: is_completed is declared bool
response_model_valid(db_activity) == db_activity.is_completed \in {True, False}

\* PATCH /self-care/{activity_id}
patch_self_care_activity(user_id, activity_id, activity_update) ==
    LET found == get_self_care_activity(self_care_activities, activity_id, user_id)
    IN /\ IF found = {}
          THEN /\ response' = [op |-> "update_self_care_activity", user_id |-> user_id,
                               id |-> activity_id, status |-> 404,
                               result |-> "Self-care activity not found",
                               payload |-> activity_update]
               /\ UNCHANGED self_care_activities
          ELSE LET db_activity == CHOOSE a \in found : TRUE
                   updated == update_self_care_activity(db_activity, activity_update, now)
               IN /\ self_care_activities' =
                         (self_care_activities \ {db_activity}) \cup {updated}
                  /\ response' =
                        IF response_model_valid(updated)
                        THEN [op |-> "update_self_care_activity", user_id |-> user_id,
                              id |-> activity_id, status |-> 200, result |-> updated,
                              payload |-> activity_update]
                        ELSE [op |-> "update_self_care_activity", user_id |-> user_id,
                              id |-> activity_id, status |-> 500,
                              result |-> "ResponseValidationError",
                              payload |-> activity_update]
       /\ UNCHANGED <<now, mood_logs, journal_entries, next_mood_id, next_journal_id,
                      stressVars, next_activity_id, userVars, storageVars>>

(***************************************************************************)
(* GET /analytics/recommendations                                          *)
(***************************************************************************)
MoodLimit == 7
ActivityLimit == 5
SuggestLimit == 3

get_mood_logs_by_user_unlimited(logs, user_id, limit) == {{l \in logs : l.user_id = user_id}}

\* ORDER BY logged_at DESC LIMIT limit with skip = 0 and no dates: every set of
\* rows the database can return (the caller only sums over them); among rows
\* of equal logged_at the cut is left to the database
get_mood_logs_by_user(logs, user_id, limit) ==
    LET rows == {l \in logs : l.user_id = user_id}
        n == IF Cardinality(rows) < limit THEN Cardinality(rows) ELSE limit
    IN {T \in SUBSET rows :
            /\ Cardinality(T) = n
            /\ \A x \in T, y \in rows \ T : x.logged_at >= y.logged_at}

\* sum(m.mood_level for m in recent_moods) / len(recent_moods), or 3
avg_mood(recent_moods) ==
    IF recent_moods # {} THEN AvgMood(recent_moods) ELSE [num |-> 3, den |-> 1]

LowMoodMessages ==
    <<"Your mood has been low lately. Consider scheduling time for activities you enjoy.",
      "Try to get some physical activity today, even a short walk can help.",
      "Consider reaching out to a friend or loved one for support.">>

ModerateMoodMessages ==
    <<"Your mood has been moderate. Remember to take breaks during your day.",
      "Stay hydrated and maintain regular meals.">>

MoodMessagesInclusive(avg) ==
    IF 2 * avg.num <= 5 * avg.den THEN LowMoodMessages
    ELSE IF 2 * avg.num <= 7 * avg.den THEN ModerateMoodMessages
    ELSE <<>>

\* if avg_mood < 2.5: ... elif avg_mood < 3.5: ...
MoodMessages(avg) ==
    IF 2 * avg.num < 5 * avg.den THEN LowMoodMessages
    ELSE IF 2 * avg.num < 7 * avg.den THEN ModerateMoodMessages
    ELSE <<>>

CountMessage(n) ==
    "You have " \o ToString(n) \o " incomplete self-care tasks. Try to complete at least one today."

ScheduleMessage(name) == "Consider scheduling time for: " \o name

\* if incomplete_activities: two appended messages
SelfCareMessages(incomplete_activities) ==
    IF incomplete_activities # <<>>
    THEN <<CountMessage(Len(incomplete_activities)),
           ScheduleMessage(incomplete_activities[1].name)>>
    ELSE <<>>

\* [{id, name, description} for a in incomplete_activities[:3]]
SuggestedActivities(incomplete_activities) ==
    [i \in 1..(IF Len(incomplete_activities) < SuggestLimit
               THEN Len(incomplete_activities) ELSE SuggestLimit) |->
        [id |-> incomplete_activities[i].id, name |-> incomplete_activities[i].name,
         description |-> incomplete_activities[i].description]]

\* every answer the endpoint can give: one per result of its two queries
get_self_care_recommendations(logs, activities, user_id) ==
    {[avg_mood_level |-> avg_mood(recent_moods),
      recommendations |-> MoodMessages(avg_mood(recent_moods))
                              \o SelfCareMessages(incomplete_activities),
      suggested_activities |-> SuggestedActivities(incomplete_activities)]
        : recent_moods \in get_mood_logs_by_user(logs, user_id, MoodLimit),
          incomplete_activities \in
              get_self_care_activities_by_user(activities, user_id, False, ActivityLimit)}

\* the response records every answer the request can get: the database is free
\* in the order of rows of equal timestamp
recommendations(user_id) ==
    /\ response' = [op |-> "get_self_care_recommendations", user_id |-> user_id,
                    status |-> 200,
                    outcomes |-> get_self_care_recommendations(
                                     mood_logs, self_care_activities, user_id)]
    /\ UNCHANGED <<now, mood_logs, journal_entries, next_mood_id, next_journal_id,
                   stressVars, careVars, userVars, storageVars>>

(***************************************************************************)
(* Recommendations over many mood logs                                     *)
(***************************************************************************)
\* POST /moods requests: <<current user, mood_level>>
MoodRequests == {<<1, 1>>, <<1, 5>>}

RecInstants == {At(30, 0)}

NextRecMood ==
    \/ Tick(RecInstants)
    \/ /\ next_mood_id <= MaxRecentMoodLogs
       /\ \E q \in MoodRequests, n \in NoteInputs : create_mood_log(q[1], q[2], n)
    \/ \E u \in UserIds : recommendations(u)

SpecRecMood == Init /\ [][NextRecMood]_vars

RecAnswered == response.op = "get_self_care_recommendations"

UserMoodLogs == {l \in mood_logs : l.user_id = response.user_id}

\* the choices of the k most recently logged of a set of mood logs
MostRecent(logs, k) ==
    {T \in SUBSET logs :
        /\ Cardinality(T) = k
        /\ \A l \in logs \ T : \A m \in T : l.logged_at <= m.logged_at}

RecMoodRequests == {<<1, 2>>, <<1, 3>>, <<1, 5>>, <<2, 2>>}

\* POST /self-care requests: <<current user, name>>
RecActivityRequests == {<<1, "yoga">>, <<2, "walk">>}

NextRec ==
    \/ Tick(RecInstants)
    \/ /\ next_mood_id <= MaxMoodLogs
       /\ \E q \in RecMoodRequests, n \in NoteInputs : create_mood_log(q[1], q[2], n)
    \/ /\ next_activity_id <= MaxRecActivities
       /\ \E q \in RecActivityRequests : create_self_care_activity(q[1], q[2], None)
    \/ \E u \in UserIds : recommendations(u)

SpecRec == Init /\ [][NextRec]_vars

IsMoodMessage(m) ==
    \/ \E i \in 1..Len(LowMoodMessages) : m = LowMoodMessages[i]
    \/ \E i \in 1..Len(ModerateMoodMessages) : m = ModerateMoodMessages[i]

\* the number of mood-based messages that goes with an average num / den
MoodMessageCount(avg) ==
    IF 2 * avg.num < 5 * avg.den THEN 3
    ELSE IF 2 * avg.num < 7 * avg.den THEN 2
    ELSE 0

UserIncomplete ==
    {a \in self_care_activities : a.user_id = response.user_id /\ a.is_completed = False}

\* C15: the number of mood-based messages is three when avg_mood_level < 2.5,
\* two when 2.5 <= avg_mood_level < 3.5 and none when avg_mood_level >= 3.5,
\* and they come before every self-care message.
C15_MoodMessagesByAverage ==
    RecAnswered =>
        \A o \in response.outcomes :
            \A i \in 1..Len(o.recommendations) :
                IsMoodMessage(o.recommendations[i]) <=> i <= MoodMessageCount(o.avg_mood_level)

C15_Witness ==
    /\ RecAnswered
    /\ \E o \in response.outcomes :
          /\ o.avg_mood_level = [num |-> 5, den |-> 2]
          /\ Len(o.recommendations) = 4
          /\ IsMoodMessage(o.recommendations[2])
          /\ ~IsMoodMessage(o.recommendations[3])

\* C16: for a user with zero mood samples avg_mood_level is 3 and the list has
\* no mood-based message, only the self-care messages.
C16_NoSamplesNoMoodMessage ==
    (RecAnswered /\ UserMoodLogs = {}) =>
        \A o \in response.outcomes :
            /\ o.avg_mood_level = [num |-> 3, den |-> 1]
            /\ \A i \in 1..Len(o.recommendations) : ~IsMoodMessage(o.recommendations[i])
            /\ UserIncomplete = {} => o.recommendations = <<>>

(***************************************************************************)
(* Recommendations over many self-care activities                          *)
(***************************************************************************)
\* the POST /self-care requests of user 1: the name sent by the i-th of them
CareNames(i) == IF i % 2 = 1 THEN "yoga" ELSE "walk"

\* the activity ids PATCH requests name
PatchIds == {2, 6}

NextCare ==
    \/ Tick(RecInstants)
    \/ /\ next_activity_id <= MaxActivities
       /\ create_self_care_activity(1, CareNames(next_activity_id), None)
    \/ \E u \in UserIds, i \in PatchIds, p \in CompletionUpdates :
           patch_self_care_activity(u, i, p)
    \/ \E u \in UserIds : recommendations(u)

SpecCare == Init /\ [][NextCare]_vars

Min(a, b) == IF a < b THEN a ELSE b

\* C17: iff the user has an incomplete activity, two messages follow the
\* mood-based ones: the count of fetched incomplete activities, min(5, n), and
\* the name of the most recently created incomplete activity;
\* suggested_activities is the first min(3, n) of the fetched incomplete
\* activities, most recent first, and holds no completed activity.
C17_SelfCareMessagesAndSuggestions ==
    RecAnswered =>
        \A o \in response.outcomes :
            LET n == Cardinality(UserIncomplete)
                k == MoodMessageCount(o.avg_mood_level)
                r == o.recommendations
                s == o.suggested_activities
            IN /\ Len(r) = k + (IF n > 0 THEN 2 ELSE 0)
               /\ \A i \in 1..k : IsMoodMessage(r[i])
               /\ n > 0 =>
                     /\ r[k + 1] = CountMessage(Min(5, n))
                     /\ \E a \in UserIncomplete :
                           /\ \A b \in UserIncomplete : a.created_at >= b.created_at
                           /\ r[k + 2] = ScheduleMessage(a.name)
                           /\ s[1].id = a.id
               /\ Len(s) = Min(3, n)
               /\ \A i, j \in 1..Len(s) : i # j => s[i].id # s[j].id
               /\ \A i \in 1..Len(s) :
                     \E a \in UserIncomplete :
                        /\ s[i] = [id |-> a.id, name |-> a.name, description |-> a.description]
                        /\ \A j \in (i + 1)..Len(s) :
                              \E b \in UserIncomplete :
                                  b.id = s[j].id /\ a.created_at >= b.created_at
                        /\ \A b \in UserIncomplete :
                              (\A j \in 1..Len(s) : s[j].id # b.id) =>
                                  a.created_at >= b.created_at

C17_Witness ==
    /\ RecAnswered
    /\ Cardinality(UserIncomplete) = 6
    /\ \E a \in self_care_activities :
          a.user_id = response.user_id /\ a.is_completed = True
    /\ \E a, b \in UserIncomplete : a.created_at < b.created_at /\ a.name # b.name
    /\ \E o \in response.outcomes :
          /\ o.recommendations[3] = CountMessage(5)
          /\ Len(o.suggested_activities) = 3

(***************************************************************************)
(* Users (api/endpoints/auth.py) and the analytics operations together     *)
(***************************************************************************)
EmailInputs == {"a@example.com", "b@example.com"}

PasswordInputs == {"pw"}

\* get_password_hash(password)
get_password_hash(password) == "hash:" \o password

get_user_by_email_exact_row(rows, email) == {u \in rows : u.email = email /\ u.id = 0}

get_user_by_email(rows, email) == {u \in rows : u.email = email}

\* POST /auth/register
register_user(email, password, full_name) ==
    /\ IF get_user_by_email(users, email) # {}
       THEN /\ response' = [op |-> "register_user", email |-> email, status |-> 400,
                            result |-> "The user with this email already exists in the system."]
            /\ UNCHANGED userVars
       ELSE LET db_user == [id |-> next_user_id, email |-> email,
                            hashed_password |-> get_password_hash(password),
                            full_name |-> full_name, avatar_url |-> <<>>,
                            is_active |-> TRUE, is_superuser |-> FALSE,
                            created_at |-> now, updated_at |-> now]
            IN /\ users' = users \cup {db_user}
               /\ next_user_id' = next_user_id + 1
               /\ response' = [op |-> "register_user", email |-> email, status |-> 201,
                               result |-> db_user]
    /\ UNCHANGED <<now, mood_logs, journal_entries, next_mood_id, next_journal_id,
                   stressVars, careVars, storageVars>>

StoredRows ==
    Cardinality(mood_logs) + Cardinality(stress_events) + Cardinality(journal_entries)
        + Cardinality(self_care_activities)

\* requests come from registered users
NextAnalytics ==
    \/ Tick(RecInstants)
    \/ /\ next_user_id <= MaxUsers
       /\ \E e \in EmailInputs, p \in PasswordInputs : register_user(e, p, None)
    \/ /\ StoredRows < MaxAnalyticsRows
       /\ \E u \in {x.id : x \in users} :
             \/ \E n \in NoteInputs : create_mood_log(u, 2, n)
             \/ \E c \in JournalContents : create_journal(u, c)
             \/ \E d \in DescriptionInputs : create_stress_event(u, d, "Work", 4)
             \/ create_self_care_activity(u, "yoga", None)
    \/ \E u \in {x.id : x \in users}, p \in PeriodInputs, d \in DaysInputs : mood_trend(u, p, d)
    \/ \E u \in {x.id : x \in users}, d \in DaysInputs : stress_patterns(u, d)
    \/ \E u \in {x.id : x \in users} : journaling_streak(u)
    \/ \E u \in {x.id : x \in users} : recommendations(u)

SpecAnalytics == Init /\ [][NextAnalytics]_vars

AnalyticsOps ==
    {"get_mood_trend", "get_stress_patterns", "get_journaling_streak",
     "get_self_care_recommendations"}

\* C18: an analytics operation leaves the mood logs, stress events, journal
\* entries, self-care activities and users, with all their fields, unchanged.
C18_AnalyticsDoNotWrite ==
    [][response'.op \in AnalyticsOps =>
          /\ mood_logs' = mood_logs
          /\ stress_events' = stress_events
          /\ journal_entries' = journal_entries
          /\ self_care_activities' = self_care_activities
          /\ users' = users]_vars

C18_Witness ==
    /\ response.op = "get_self_care_recommendations"
    /\ mood_logs # {}
    /\ self_care_activities # {}
    /\ Cardinality(users) = 2

\* the records of a table that belong to the user who asked
Own(rows) == {x \in rows : x.user_id = response.user_id}

\* C19: an analytics result for user U is the result the operation gives, at
\* the same time, on the store that holds U's records only: the records of
\* other users do not change it.
C19_ResultsScopedToUser ==
    /\ response.op = "get_mood_trend" =>
          response.result = get_mood_trend(Own(mood_logs), response.user_id,
                                           response.period, response.days, now)
    /\ response.op = "get_stress_patterns" =>
          /\ response.result \in get_stress_patterns(Own(stress_events), response.user_id,
                                                     response.days, now)
          /\ get_stress_patterns(stress_events, response.user_id, response.days, now)
                = get_stress_patterns(Own(stress_events), response.user_id,
                                      response.days, now)
    /\ response.op = "get_journaling_streak" =>
          response.result = get_journaling_streak(Own(journal_entries), response.user_id, now)
    /\ response.op = "get_self_care_recommendations" =>
          response.outcomes = get_self_care_recommendations(
                                  Own(mood_logs), Own(self_care_activities), response.user_id)

C19_Witness ==
    /\ response.op = "get_mood_trend"
    /\ response.result # <<>>
    /\ \E l \in mood_logs :
          /\ l.user_id # response.user_id
          /\ l.logged_at >= now - response.days * TicksPerDay

(***************************************************************************)
(* Mood logs: what POST /moods stores                                      *)
(***************************************************************************)
\* mood_level: int, with no validator
IntMoodLevelInputs == {0, 1, 5, 6}

NextMoodCrud ==
    \/ Tick(RecInstants)
    \/ /\ next_mood_id <= MaxMoodLogs
       /\ \E u \in UserIds, m \in IntMoodLevelInputs, n \in NoteInputs :
             create_mood_log(u, m, n)
    \/ \E u \in UserIds, i \in 1..MaxMoodLogs : delete_mood_log(u, i)

SpecMoodCrud == Init /\ [][NextMoodCrud]_vars

\* C20: every stored mood log has mood_level in 1..5, after any sequence of
\* create and delete operations on mood logs.
C20_MoodLevelInRange ==
    \A l \in mood_logs : l.mood_level >= 1 /\ l.mood_level <= 5

(***************************************************************************)
(* Reading, updating and deleting single records                           *)
(***************************************************************************)
get_stress_event(events, stress_event_id, user_id) ==
    {e \in events : e.id = stress_event_id /\ e.user_id = user_id}

\* GET /journals/{journal_id}
read_journal(user_id, journal_id) ==
    LET found == get_journal_entry(journal_entries, journal_id, user_id)
    IN /\ response' = IF found = {}
                      THEN [op |-> "read_journal", user_id |-> user_id, id |-> journal_id,
                            status |-> 404, result |-> "Journal entry not found"]
                      ELSE [op |-> "read_journal", user_id |-> user_id, id |-> journal_id,
                            status |-> 200, result |-> CHOOSE e \in found : TRUE]
       /\ UNCHANGED <<now, mood_logs, journal_entries, next_mood_id, next_journal_id,
                      stressVars, careVars, userVars, storageVars>>

\* crud update_journal_entry on the row found: the payload's fields are set;
\* updated_at (onupdate=datetime.utcnow) moves when a column changes
update_journal_entry(db_journal, update_data, t) ==
    LET set == [key \in DOMAIN db_journal |->
                    IF key \in DOMAIN update_data THEN update_data[key] ELSE db_journal[key]]
    IN IF set = db_journal THEN db_journal ELSE [set EXCEPT !.updated_at = t]

\* PUT /journals/{journal_id}
update_journal(user_id, journal_id, journal_in) ==
    LET found == get_journal_entry(journal_entries, journal_id, user_id)
    IN /\ IF found = {}
          THEN /\ response' = [op |-> "update_journal", user_id |-> user_id,
                               id |-> journal_id, status |-> 404,
                               result |-> "Journal entry not found"]
               /\ UNCHANGED journal_entries
          ELSE LET db_journal == CHOOSE e \in found : TRUE
                   updated == update_journal_entry(db_journal, journal_in, now)
               IN /\ journal_entries' = (journal_entries \ {db_journal}) \cup {updated}
                  /\ response' = [op |-> "update_journal", user_id |-> user_id,
                                  id |-> journal_id, status |-> 200, result |-> updated]
       /\ UNCHANGED <<now, mood_logs, next_mood_id, next_journal_id, stressVars, careVars,
                      userVars, storageVars>>

\* GET /moods/{mood_log_id}
read_mood_log(user_id, mood_log_id) ==
    LET found == get_mood_log(mood_logs, mood_log_id, user_id)
    IN /\ response' = IF found = {}
                      THEN [op |-> "read_mood_log", user_id |-> user_id, id |-> mood_log_id,
                            status |-> 404, result |-> "Mood log not found"]
                      ELSE [op |-> "read_mood_log", user_id |-> user_id, id |-> mood_log_id,
                            status |-> 200, result |-> CHOOSE l \in found : TRUE]
       /\ UNCHANGED <<now, mood_logs, journal_entries, next_mood_id, next_journal_id,
                      stressVars, careVars, userVars, storageVars>>

\* GET /stress/{stress_event_id}
read_stress_event(user_id, stress_event_id) ==
    LET found == get_stress_event(stress_events, stress_event_id, user_id)
    IN /\ response' = IF found = {}
                      THEN [op |-> "read_stress_event", user_id |-> user_id,
                            id |-> stress_event_id, status |-> 404,
                            result |-> "Stress event not found"]
                      ELSE [op |-> "read_stress_event", user_id |-> user_id,
                            id |-> stress_event_id, status |-> 200,
                            result |-> CHOOSE e \in found : TRUE]
       /\ UNCHANGED <<now, mood_logs, journal_entries, next_mood_id, next_journal_id,
                      stressVars, careVars, userVars, storageVars>>

\* DELETE /stress/{stress_event_id}
delete_stress_event(user_id, stress_event_id) ==
    LET found == get_stress_event(stress_events, stress_event_id, user_id)
    IN /\ IF found = {}
          THEN /\ response' = [op |-> "delete_stress_event", user_id |-> user_id,
                               id |-> stress_event_id, status |-> 404,
                               result |-> "Stress event not found"]
               /\ UNCHANGED stress_events
          ELSE /\ stress_events' = stress_events \ found
               /\ response' = [op |-> "delete_stress_event", user_id |-> user_id,
                               id |-> stress_event_id, status |-> 200,
                               result |-> CHOOSE e \in found : TRUE]
       /\ UNCHANGED <<now, mood_logs, journal_entries, next_mood_id, next_journal_id,
                      next_stress_id, careVars, userVars, storageVars>>

\* GET /self-care/{activity_id}
read_self_care_activity(user_id, activity_id) ==
    LET found == get_self_care_activity(self_care_activities, activity_id, user_id)
    IN /\ response' = IF found = {}
                      THEN [op |-> "read_self_care_activity", user_id |-> user_id,
                            id |-> activity_id, status |-> 404,
                            result |-> "Self-care activity not found"]
                      ELSE [op |-> "read_self_care_activity", user_id |-> user_id,
                            id |-> activity_id, status |-> 200,
                            result |-> CHOOSE a \in found : TRUE]
       /\ UNCHANGED <<now, mood_logs, journal_entries, next_mood_id, next_journal_id,
                      stressVars, careVars, userVars, storageVars>>

\* DELETE /self-care/{activity_id}
delete_self_care_activity(user_id, activity_id) ==
    LET found == get_self_care_activity(self_care_activities, activity_id, user_id)
    IN /\ IF found = {}
          THEN /\ response' = [op |-> "delete_self_care_activity", user_id |-> user_id,
                               id |-> activity_id, status |-> 404,
                               result |-> "Self-care activity not found"]
               /\ UNCHANGED self_care_activities
          ELSE /\ self_care_activities' = self_care_activities \ found
               /\ response' = [op |-> "delete_self_care_activity", user_id |-> user_id,
                               id |-> activity_id, status |-> 200,
                               result |-> CHOOSE a \in found : TRUE]
       /\ UNCHANGED <<now, mood_logs, journal_entries, next_mood_id, next_journal_id,
                      stressVars, next_activity_id, userVars, storageVars>>

\* the ids requests name
IdInputs == {1, 2}

\* PUT /journals payloads
JournalUpdates == {[content |-> "c1"], [content |-> "c2"]}

\* rows created so far, in all tables
CreatedRows == next_mood_id + next_journal_id + next_stress_id + next_activity_id - 4

\* user 1 creates records; both users read, update and delete by id
NextCrud ==
    \/ /\ CreatedRows < MaxCrudRows
       /\ \/ \E c \in JournalContents : create_journal(1, c)
          \/ \E n \in NoteInputs : create_mood_log(1, 2, n)
          \/ \E d \in DescriptionInputs : create_stress_event(1, d, "Work", 4)
          \/ create_self_care_activity(1, "yoga", None)
    \/ \E u \in UserIds, i \in IdInputs :
          \/ read_journal(u, i)
          \/ \E j \in JournalUpdates : update_journal(u, i, j)
          \/ delete_journal(u, i)
          \/ read_mood_log(u, i)
          \/ delete_mood_log(u, i)
          \/ read_stress_event(u, i)
          \/ delete_stress_event(u, i)
          \/ read_self_care_activity(u, i)
          \/ \E p \in CompletionUpdates : patch_self_care_activity(u, i, p)
          \/ delete_self_care_activity(u, i)

SpecCrud == Init /\ [][NextCrud]_vars

(***************************************************************************)
(* Record ownership and deletion: properties                               *)
(***************************************************************************)
\* a record with this id exists in the table and belongs to another user
NotOwned(rows, user_id, id) == \E x \in rows : x.id = id /\ x.user_id # user_id

\* the record with this id that belongs to the user, if there is one
OwnedBy(rows, user_id, id) == {x \in rows : x.id = id /\ x.user_id = user_id}

\* the step leaves every table as it was
StoreUnchanged ==
    /\ journal_entries' = journal_entries
    /\ mood_logs' = mood_logs
    /\ stress_events' = stress_events
    /\ self_care_activities' = self_care_activities
    /\ users' = users

JournalOps == {"read_journal", "update_journal", "delete_journal"}
MoodLogOps == {"read_mood_log", "delete_mood_log"}
StressEventOps == {"read_stress_event", "delete_stress_event"}
ActivityOps ==
    {"read_self_care_activity", "update_self_care_activity", "delete_self_care_activity"}

\* the table an answered request is about
TableOf(op, journals, moods, events, activities) ==
    IF op \in JournalOps THEN journals
    ELSE IF op \in MoodLogOps THEN moods
    ELSE IF op \in StressEventOps THEN events
    ELSE activities

RecordOps == JournalOps \cup MoodLogOps \cup StressEventOps \cup ActivityOps

\* C21: a get, update or delete of a journal entry, mood log, stress event or
\* self-care activity by a user who is not its owner is answered 404 and
\* changes nothing in the store; the owner can still read the record.
C21_NonOwnerGetsNotFound ==
    [][( /\ response'.op \in RecordOps
         /\ NotOwned(TableOf(response'.op, journal_entries, mood_logs, stress_events,
                             self_care_activities),
                     response'.user_id, response'.id) )
          => /\ response'.status = 404
             /\ StoreUnchanged
             /\ \A x \in TableOf(response'.op, journal_entries, mood_logs, stress_events,
                                 self_care_activities) :
                   x.id = response'.id =>
                       x \in OwnedBy(TableOf(response'.op, journal_entries', mood_logs',
                                             stress_events', self_care_activities'),
                                     x.user_id, x.id)
      ]_vars

C21_Witness ==
    /\ response.op = "update_journal"
    /\ response.status = 404
    /\ \E e \in journal_entries : e.id = response.id /\ e.user_id # response.user_id
    /\ self_care_activities # {}

\* the id was given out and its record is gone
Deleted(rows, next_id, id) == id < next_id /\ \A x \in rows : x.id # id

DeleteOps ==
    {"delete_journal", "delete_mood_log", "delete_stress_event", "delete_self_care_activity"}

ReadOps == {"read_journal", "read_mood_log", "read_stress_event", "read_self_care_activity"}

\* the primary key counter of the table an answered request is about
NextIdOf(op) ==
    IF op \in JournalOps THEN next_journal_id
    ELSE IF op \in MoodLogOps THEN next_mood_id
    ELSE IF op \in StressEventOps THEN next_stress_id
    ELSE next_activity_id

\* C22: a delete by the owner returns the deleted record and removes it and
\* nothing else; a deleted id is never given to a new record, and a later get
\* of it is answered 404.
C22_OwnerDeleteRemovesRecord ==
    [][/\ ( /\ response'.op \in DeleteOps
            /\ OwnedBy(TableOf(response'.op, journal_entries, mood_logs, stress_events,
                               self_care_activities),
                       response'.user_id, response'.id) # {} )
          => /\ response'.status = 200
             /\ {response'.result}
                    = OwnedBy(TableOf(response'.op, journal_entries, mood_logs,
                                      stress_events, self_care_activities),
                              response'.user_id, response'.id)
             /\ journal_entries' = journal_entries \ {response'.result}
             /\ mood_logs' = mood_logs \ {response'.result}
             /\ stress_events' = stress_events \ {response'.result}
             /\ self_care_activities' = self_care_activities \ {response'.result}
       /\ ( /\ response'.op \in ReadOps
            /\ Deleted(TableOf(response'.op, journal_entries, mood_logs, stress_events,
                               self_care_activities),
                       NextIdOf(response'.op), response'.id) )
          => response'.status = 404
       /\ \A i \in IdInputs :
            /\ Deleted(journal_entries, next_journal_id, i)
                  => Deleted(journal_entries', next_journal_id', i)
            /\ Deleted(mood_logs, next_mood_id, i) => Deleted(mood_logs', next_mood_id', i)
            /\ Deleted(stress_events, next_stress_id, i)
                  => Deleted(stress_events', next_stress_id', i)
            /\ Deleted(self_care_activities, next_activity_id, i)
                  => Deleted(self_care_activities', next_activity_id', i)
      ]_vars

C22_Witness ==
    /\ response.op = "read_mood_log"
    /\ response.status = 404
    /\ response.user_id = 1
    /\ Deleted(mood_logs, next_mood_id, response.id)
    /\ journal_entries # {}

(***************************************************************************)
(* Registration                                                            *)
(***************************************************************************)
AuthInstants == {At(1, 0), At(2, 0)}

RegisterPasswords == {"pw", "pw2"}

FullNameInputs == {None, "Ann"}

NextAuth ==
    \/ Tick(AuthInstants)
    \/ /\ next_user_id <= MaxUsers
       /\ \E e \in EmailInputs, p \in RegisterPasswords, f \in FullNameInputs :
             register_user(e, p, f)

SpecAuth == Init /\ [][NextAuth]_vars

\* C23: registering an email that belongs to a stored user is answered 400
\* with the message that the user already exists and creates no user; no two
\* stored users have the same email.
C23_DuplicateEmailRejected ==
    [][/\ ( /\ response'.op = "register_user"
            /\ \E u \in users : u.email = response'.email )
          => /\ response'.status = 400
             /\ response'.result = "The user with this email already exists in the system."
             /\ users' = users
       /\ \A u, v \in users' : u.email = v.email => u = v
      ]_vars

C23_Witness ==
    /\ response.op = "register_user"
    /\ response.status = 400
    /\ Cardinality(users) = 1
    /\ now > At(0, 0)

(***************************************************************************)
(* File storage (api/endpoints/storage.py)                                 *)
(*                                                                         *)
(* A file name is the sequence of its characters.  journal_media and       *)
(* profile_pics are the two buckets (the local directories or the Supabase *)
(* buckets); each file carries the id of the user whose upload wrote it.   *)
(***************************************************************************)
NoUrl == <<>>

DigitChars == <<"0", "1", "2", "3", "4", "5", "6", "7", "8", "9">>

\* str(n) of a user id
RECURSIVE Str(_)
Str(n) == IF n < 10 THEN <<DigitChars[n + 1]>> ELSE Str(n \div 10) \o <<DigitChars[(n % 10) + 1]>>

\* str.startswith
startswith(s, prefix) == Len(s) >= Len(prefix) /\ SubSeq(s, 1, Len(prefix)) = prefix

\* str.lower, on the letters the uploads use
LowerChar(c) ==
    CASE c = "P" -> "p" [] c = "N" -> "n" [] c = "G" -> "g" [] c = "A" -> "a" [] OTHER -> c

lower(s) == [i \in 1..Len(s) |-> LowerChar(s[i])]

\* os.path.splitext(name)[1]: from the last dot on, a leading dot does not count
LastDot(s) ==
    LET dots == {i \in 2..Len(s) : s[i] = "." /\ \E j \in 1..(i - 1) : s[j] # "."}
    IN IF dots = {} THEN 0 ELSE CHOOSE i \in dots : \A j \in dots : j <= i

splitext_ext(s) == IF LastDot(s) = 0 THEN <<>> ELSE SubSeq(s, LastDot(s), Len(s))

ALLOWED_IMAGE_EXTENSIONS ==
    {<<".", "j", "p", "g">>, <<".", "j", "p", "e", "g">>, <<".", "p", "n", "g">>,
     <<".", "g", "i", "f">>}

ALLOWED_AUDIO_EXTENSIONS ==
    {<<".", "m", "p", "3">>, <<".", "w", "a", "v">>, <<".", "o", "g", "g">>,
     <<".", "m", "4", "a">>}

\* validate_file_extension(file, allowed_extensions)
validate_file_extension(filename, allowed_extensions) ==
    lower(splitext_ext(filename)) \in allowed_extensions

\* the outcomes of the POST to Supabase that upload_to_supabase tells apart
SupabaseStatuses == {200, 403, 404}

upload_to_supabase_status(supabase_status) ==
    IF supabase_status \in {404, 403} THEN 500 ELSE supabase_status

upload_to_supabase_url(bucket, file_path) ==
    [base |-> "SUPABASE_URL/storage/v1/object/public/", bucket |-> bucket,
     filename |-> file_path]

\* writing a file replaces the file of the same name
SaveFile(bucket, filename, user_id) ==
    {f \in bucket : f.filename # filename}
        \cup {[filename |-> filename, uploaded_by |-> user_id]}

\* crud.user.get_user
get_user(rows, user_id) == {u \in rows : u.id = user_id}

\* crud.user.update_user, for a payload without a password
update_user(rows, user_id, user_in, t) ==
    {IF u.id # user_id
        THEN u
        ELSE LET set == [key \in DOMAIN u |->
                            IF key \in DOMAIN user_in /\ user_in[key] # NoUrl
                            THEN user_in[key] ELSE u[key]]
             IN IF set = u THEN u ELSE [set EXCEPT !.updated_at = t] : u \in rows}

\* POST /storage/journal-media
upload_journal_media(user_id, filename, token, supabase_status) ==
    LET file_ext == lower(splitext_ext(filename))
        random_filename == Str(user_id) \o <<"_">> \o token \o file_ext
    IN /\ IF ~(file_ext \in ALLOWED_IMAGE_EXTENSIONS \/ file_ext \in ALLOWED_AUDIO_EXTENSIONS)
          THEN /\ response' = [op |-> "upload_journal_media", user_id |-> user_id,
                               filename |-> filename, status |-> 400,
                               result |-> "File type not allowed."]
               /\ UNCHANGED journal_media
          ELSE IF USE_LOCAL_STORAGE
          THEN /\ journal_media' = SaveFile(journal_media, random_filename, user_id)
               /\ response' = [op |-> "upload_journal_media", user_id |-> user_id,
                               filename |-> random_filename, status |-> 201,
                               result |-> [base |-> "/api/v1/storage/journal-media/",
                                           bucket |-> "", filename |-> random_filename]]
          ELSE IF supabase_status # 200
          THEN /\ response' = [op |-> "upload_journal_media", user_id |-> user_id,
                               filename |-> random_filename,
                               status |-> upload_to_supabase_status(supabase_status),
                               result |-> "Supabase storage upload failed"]
               /\ UNCHANGED journal_media
          ELSE /\ journal_media' = SaveFile(journal_media, random_filename, user_id)
               /\ response' = [op |-> "upload_journal_media", user_id |-> user_id,
                               filename |-> random_filename, status |-> 201,
                               result |-> upload_to_supabase_url("journal-media",
                                                                 random_filename)]
       /\ UNCHANGED <<now, mood_logs, journal_entries, next_mood_id, next_journal_id,
                      stressVars, careVars, userVars, profile_pics, USE_LOCAL_STORAGE>>

\* POST /storage/profile-pic
upload_profile_pic(user_id, file_name, supabase_status) ==
    LET file_ext == lower(splitext_ext(file_name))
        filename == <<"p", "r", "o", "f", "i", "l", "e", "_">> \o Str(user_id) \o file_ext
        local_url == [base |-> "/api/v1/storage/profile-pic/", bucket |-> "",
                      filename |-> filename]
    IN /\ IF ~validate_file_extension(file_name, ALLOWED_IMAGE_EXTENSIONS)
          THEN /\ response' = [op |-> "upload_profile_pic", user_id |-> user_id,
                               filename |-> file_name, status |-> 400,
                               result |-> "File type not allowed."]
               /\ UNCHANGED <<profile_pics, users>>
          ELSE IF USE_LOCAL_STORAGE
          THEN /\ profile_pics' = SaveFile(profile_pics, filename, user_id)
               /\ users' = update_user(users, user_id, [avatar_url |-> <<local_url>>], now)
               /\ response' = [op |-> "upload_profile_pic", user_id |-> user_id,
                               filename |-> filename, status |-> 201, result |-> local_url]
          ELSE IF supabase_status # 200
          THEN /\ response' = [op |-> "upload_profile_pic", user_id |-> user_id,
                               filename |-> filename,
                               status |-> upload_to_supabase_status(supabase_status),
                               result |-> "Supabase storage upload failed"]
               /\ UNCHANGED <<profile_pics, users>>
          ELSE /\ profile_pics' = SaveFile(profile_pics, filename, user_id)
               /\ users' = update_user(users, user_id,
                              [avatar_url |-> <<upload_to_supabase_url("profile-pics",
                                                                        filename)>>], now)
               /\ response' = [op |-> "upload_profile_pic", user_id |-> user_id,
                               filename |-> filename, status |-> 201,
                               result |-> upload_to_supabase_url("profile-pics", filename)]
       /\ UNCHANGED <<now, mood_logs, journal_entries, next_mood_id, next_journal_id,
                      stressVars, careVars, next_user_id, journal_media, USE_LOCAL_STORAGE>>

authorized_without_separator(filename, user_id) == startswith(filename, Str(user_id))

\* the check of get_journal_media: filename.startswith(f"{current_user.id}_")
authorized(filename, user_id) == startswith(filename, Str(user_id) \o <<"_">>)

\* GET /storage/journal-media/{filename}
get_journal_media(user_id, filename) ==
    /\ response' =
          IF ~authorized(filename, user_id)
          THEN [op |-> "get_journal_media", user_id |-> user_id, filename |-> filename,
                status |-> 403, result |-> "Not authorized to access this file"]
          ELSE IF USE_LOCAL_STORAGE
          THEN IF \A f \in journal_media : f.filename # filename
               THEN [op |-> "get_journal_media", user_id |-> user_id,
                     filename |-> filename, status |-> 404, result |-> "File not found"]
               ELSE [op |-> "get_journal_media", user_id |-> user_id,
                     filename |-> filename, status |-> 200, result |-> "FileResponse"]
          ELSE [op |-> "get_journal_media", user_id |-> user_id, filename |-> filename,
                status |-> 307, result |-> "RedirectResponse"]
    /\ UNCHANGED <<now, mood_logs, journal_entries, next_mood_id, next_journal_id,
                   stressVars, careVars, userVars, storageVars>>

\* GET /storage/profile-pic/{filename}; user_id is 0 for a request without credentials,
\* which the handler never looks at
get_profile_pic(user_id, filename) ==
    /\ response' =
          IF USE_LOCAL_STORAGE
          THEN IF \A f \in profile_pics : f.filename # filename
               THEN [op |-> "get_profile_pic", user_id |-> user_id, filename |-> filename,
                     status |-> 404, result |-> "File not found"]
               ELSE [op |-> "get_profile_pic", user_id |-> user_id, filename |-> filename,
                     status |-> 200, result |-> "FileResponse"]
          ELSE [op |-> "get_profile_pic", user_id |-> user_id, filename |-> filename,
                status |-> 307, result |-> "RedirectResponse"]
    /\ UNCHANGED <<now, mood_logs, journal_entries, next_mood_id, next_journal_id,
                   stressVars, careVars, userVars, storageVars>>

Anonymous == 0

StorageUserIds == {1, 12}

\* names of the uploaded files
UploadNames ==
    {<<"a", ".", "P", "N", "G">>, <<"a", ".", "b", ".", "m", "p", "3">>,
     <<"a", ".", "e", "x", "e">>, <<".", "p", "n", "g">>}

\* values of secrets.token_hex, shortened
TokenInputs == {<<"0", "a">>, <<"2", "f">>}

\* file names a client may ask for besides the stored ones
ForgedNames == {<<"1">>, <<"1", "_">>, <<"1", "2">>, <<"x", ".", "p", "n", "g">>}

StorageUser(id) ==
    [id |-> id, email |-> "u" \o ToString(id) \o "@example.com",
     hashed_password |-> get_password_hash("pw"), full_name |-> None, avatar_url |-> NoUrl,
     is_active |-> TRUE, is_superuser |-> FALSE, created_at |-> At(0, 0),
     updated_at |-> At(0, 0)]

\* a database in which the users of StorageUserIds have registered, in either storage mode
InitStorage ==
    /\ now = At(0, 0)
    /\ mood_logs = {}
    /\ journal_entries = {}
    /\ next_mood_id = 1
    /\ next_journal_id = 1
    /\ response = NoResponse
    /\ stress_events = {}
    /\ next_stress_id = 1
    /\ self_care_activities = {}
    /\ next_activity_id = 1
    /\ users = {StorageUser(id) : id \in StorageUserIds}
    /\ next_user_id = 13
    /\ journal_media = {}
    /\ profile_pics = {}
    /\ USE_LOCAL_STORAGE \in BOOLEAN

NextStorage ==
    \/ /\ Cardinality(journal_media) < MaxMediaFiles
       /\ \E u \in StorageUserIds, n \in UploadNames, k \in TokenInputs,
             s \in SupabaseStatuses :
             upload_journal_media(u, n, k, s)
    \/ \E u \in StorageUserIds, n \in UploadNames, s \in SupabaseStatuses :
          upload_profile_pic(u, n, s)
    \/ \E u \in StorageUserIds,
          n \in {f.filename : f \in journal_media \cup profile_pics} \cup ForgedNames :
          get_journal_media(u, n)
    \/ \E u \in StorageUserIds \cup {Anonymous},
          n \in {f.filename : f \in journal_media \cup profile_pics} \cup ForgedNames :
          get_profile_pic(u, n)

SpecStorage == InitStorage /\ [][NextStorage]_vars

\* C24: a request for a profile picture that carries no credentials is
\* answered 401 and is served no file and no redirect to one.
C24_ProfilePicRequiresAuthentication ==
    (response.op = "get_profile_pic" /\ response.user_id = Anonymous) =>
        /\ response.status = 401
        /\ response.result \notin {"FileResponse", "RedirectResponse"}

HexChars == {"0", "1", "2", "3", "4", "5", "6", "7", "8", "9", "a", "b", "c", "d", "e", "f"}

OwnPrefix(filename, user_id) == startswith(filename, Str(user_id) \o <<"_">>)

\* <uploader id>_<random hex><extension>
UploadNamed(filename, user_id) ==
    \E i \in 1..Len(filename), j \in 1..(Len(filename) + 1) :
        /\ i < j
        /\ SubSeq(filename, 1, i) = Str(user_id) \o <<"_">>
        /\ \A k \in (i + 1)..(j - 1) : filename[k] \in HexChars
        /\ SubSeq(filename, j, Len(filename))
              \in ALLOWED_IMAGE_EXTENSIONS \cup ALLOWED_AUDIO_EXTENSIONS

\* C25: get_journal_media serves a file or redirects to one only when the
\* file name starts with the requesting user's id and an underscore, and
\* answers 403 otherwise; every stored journal media file is named
\* <uploader id>_<random hex><extension>, and a request for a file that
\* another user uploaded is answered 403.
C25_JournalMediaOnlyForUploader ==
    /\ response.op = "get_journal_media" =>
          /\ response.status \in {200, 307} => OwnPrefix(response.filename, response.user_id)
          /\ ~OwnPrefix(response.filename, response.user_id) => response.status = 403
          /\ \A f \in journal_media :
                (f.filename = response.filename /\ f.uploaded_by # response.user_id)
                    => response.status = 403
    /\ \A f \in journal_media : UploadNamed(f.filename, f.uploaded_by)

C25_Witness ==
    /\ response.op = "get_journal_media"
    /\ response.user_id = 1
    /\ response.status = 403
    /\ \E f \in journal_media :
          /\ f.filename = response.filename
          /\ f.uploaded_by = 12
          /\ startswith(f.filename, Str(1))
    /\ \E f \in journal_media : f.uploaded_by = 1

(***************************************************************************)
(* The period argument of the mood trend                                   *)
(* (crud/mental_health.py get_mood_trend, api/endpoints/analytics.py)      *)
(***************************************************************************)
\* period strings that the pattern ^(day|week|month)$ does not match
OtherPeriods == {"year", "Week", ""}

TrendInstants == {At(7, 0), At(40, 0)}

\* a call of crud.mental_health.get_mood_trend with any period string
call_get_mood_trend(user_id, period, days) ==
    /\ response' = [op |-> "crud.get_mood_trend", user_id |-> user_id, status |-> 200,
                    period |-> period, days |-> days,
                    result |-> get_mood_trend(mood_logs, user_id, period, days, now)]
    /\ UNCHANGED <<now, mood_logs, journal_entries, next_mood_id, next_journal_id, stressVars,
                   careVars, userVars, storageVars>>

\* GET /analytics/mood-trend with any query string: the Query(...) constraints
\* are checked before the handler runs
mood_trend_query(user_id, period, days) ==
    IF period \in PeriodInputs /\ days >= MinDays /\ days <= MaxDays
    THEN mood_trend(user_id, period, days)
    ELSE /\ response' = [op |-> "get_mood_trend", user_id |-> user_id, status |-> 422,
                         period |-> period, days |-> days, result |-> "validation error"]
         /\ UNCHANGED <<now, mood_logs, journal_entries, next_mood_id, next_journal_id,
                        stressVars, careVars, userVars, storageVars>>

NextTrend ==
    \/ Tick(TrendInstants)
    \/ /\ next_mood_id <= MaxMoodLogs
       /\ \E u \in UserIds, m \in MoodLevelInputs : create_mood_log(u, m, "null")
    \/ \E u \in UserIds, p \in PeriodInputs \cup OtherPeriods, d \in DaysInputs :
          call_get_mood_trend(u, p, d)
    \/ \E u \in UserIds, p \in PeriodInputs \cup OtherPeriods, d \in {0} \cup DaysInputs :
          mood_trend_query(u, p, d)

SpecTrend == Init /\ [][NextTrend]_vars

\* C26: get_mood_trend called with a period other than day, week and month
\* returns the empty sequence without raising, whatever is stored, and
\* writes nothing; the endpoint rejects such a period (422) and no
\* aggregation result is returned.
C26_UnknownPeriodEmptyTrend ==
    [][/\ ( /\ response'.op = "crud.get_mood_trend"
            /\ response'.period \notin {"day", "week", "month"} )
          => /\ response'.status = 200
             /\ response'.result = <<>>
             /\ StoreUnchanged
       /\ ( /\ response'.op = "get_mood_trend"
            /\ response'.period \notin {"day", "week", "month"} )
          => /\ response'.status = 422
             /\ response'.result = "validation error"
             /\ StoreUnchanged
      ]_vars

C26_Witness ==
    /\ response.op = "crud.get_mood_trend"
    /\ response.period = "year"
    /\ response.result = <<>>
    /\ \E l \in mood_logs :
          /\ l.user_id = response.user_id
          /\ l.logged_at >= now - response.days * TicksPerDay

(***************************************************************************)
(* PATCH /self-care/{activity_id} with every kind of payload               *)
(***************************************************************************)
\* SelfCareActivityUpdate payloads as model_dump(exclude_unset=True) gives them
ActivityUpdates ==
    {[is_completed |-> True], [is_completed |-> False], [is_completed |-> None],
     [name |-> "renamed"], [description |-> None, is_completed |-> True]}

PatchInstants == {At(1, 0), At(2, 0)}

NextPatch ==
    \/ Tick(PatchInstants)
    \/ /\ next_activity_id <= MaxPatchedActivities
       /\ create_self_care_activity(1, "walk", "d")
    \/ \E i \in 1..MaxPatchedActivities, p \in ActivityUpdates :
          patch_self_care_activity(1, i, p)

SpecPatch == Init /\ [][NextPatch]_vars

UpdatableFields == {"name", "description", "is_completed", "scheduled_for"}

\* C27: an update with is_completed true of an activity that is not
\* completed sets completed_at to the current time; with is_completed false
\* it sets completed_at to null; with is_completed true of a completed
\* activity, or with is_completed not in the payload, completed_at is as
\* before; every field the payload does not mention keeps its value.
C27_CompletionStamp ==
    [][( /\ response'.op = "update_self_care_activity"
         /\ response'.status # 404 )
       => \E old \in self_care_activities, new \in self_care_activities' :
             LET p == response'.payload
             IN /\ old.id = response'.id /\ new.id = old.id
                /\ self_care_activities' = (self_care_activities \ {old}) \cup {new}
                /\ ( /\ "is_completed" \in DOMAIN p
                     /\ p.is_completed = True
                     /\ old.is_completed # True ) => new.completed_at = <<now>>
                /\ ("is_completed" \in DOMAIN p /\ p.is_completed = False)
                      => new.completed_at = NullTime
                /\ ( \/ "is_completed" \notin DOMAIN p
                     \/ (p.is_completed = True /\ old.is_completed = True) )
                      => new.completed_at = old.completed_at
                /\ \A key \in (DOMAIN old \ {"completed_at"}) \ DOMAIN p :
                      new[key] = old[key]
      ]_vars

C27_Witness ==
    /\ response.op = "update_self_care_activity"
    /\ response.status = 200
    /\ response.payload = [description |-> None, is_completed |-> True]
    /\ \E a \in self_care_activities :
          /\ a.id = response.id
          /\ a.completed_at # NullTime
          /\ a.completed_at # <<now>>
          /\ a.name = "renamed"

\* C28: every stored activity has is_completed true or false, and its
\* completed_at is non-null exactly when is_completed is true.
C28_CompletionConsistent ==
    \A a \in self_care_activities :
        /\ a.is_completed \in {True, False}
        /\ (a.completed_at # NullTime) <=> (a.is_completed = True)

(***************************************************************************)
(* The journaling streak as entries are created and updated and days pass  *)
(***************************************************************************)
\* C29: creating a journal entry does not lower the creator's current_streak
\* as computed at the same instant, the streak after it is at least 1, and
\* it is exactly one more than before when the creator's previous most
\* recent journal date was yesterday.
C29_CreateNeverLowersStreak ==
    [][response'.op = "create_journal" =>
          LET u == response'.user_id
              S == JournalDaySet(u)
              before == get_journaling_streak(journal_entries, u, now).current_streak
              after == get_journaling_streak(journal_entries', u, now').current_streak
          IN /\ after >= before
             /\ after >= 1
             /\ (S # {} /\ SetMax(S) = DateOf(now) - 1) => after = before + 1
      ]_vars

C29_Witness ==
    /\ response.op = "create_journal"
    /\ JournalDaySet(response.user_id) = {DateOf(now) - 1, DateOf(now)}
    /\ Cardinality({e \in journal_entries : e.user_id = response.user_id}) = 2
    /\ get_journaling_streak(journal_entries, response.user_id, now).current_streak = 2
    /\ \E e \in journal_entries : e.user_id # response.user_id

StreakUpdateInstants == {At(1, 0), At(2, 0), At(3, 0)}

NextStreakUpdate ==
    \/ Tick(StreakUpdateInstants)
    \/ /\ next_journal_id <= MaxUpdatedEntries
       /\ \E u \in UserIds : create_journal(u, "c1")
    \/ \E u \in UserIds, j \in 1..MaxUpdatedEntries : update_journal(u, j, [content |-> "c2"])
    \/ \E u \in UserIds : journaling_streak(u)

SpecStreakUpdate == Init /\ [][NextStreakUpdate]_vars

\* C30: when time passes with the store unchanged, a user whose most recent
\* journal date is the current day d and whose current_streak is k >= 1 has
\* current_streak k at an instant of day d + 1 and 0 at an instant of day
\* d + 2 or later; updating a journal entry changes no user's streak.
C30_StreakExpiresAfterYesterday ==
    [][/\ response'.op = "none" =>
             \A u \in UserIds :
                 LET S == JournalDaySet(u)
                     k == get_journaling_streak(journal_entries, u, now).current_streak
                     later == get_journaling_streak(journal_entries', u, now').current_streak
                 IN (S # {} /\ SetMax(S) = DateOf(now) /\ k >= 1) =>
                        /\ journal_entries' = journal_entries
                        /\ DateOf(now') <= DateOf(now) + 1 => later = k
                        /\ DateOf(now') >= DateOf(now) + 2 => later = 0
       /\ response'.op = "update_journal" =>
             \A u \in UserIds :
                 get_journaling_streak(journal_entries', u, now')
                     = get_journaling_streak(journal_entries, u, now)
      ]_vars

C30_Witness ==
    /\ StreakAnswered
    /\ response.result.current_streak = 0
    /\ JournalDaySet(response.user_id) = {DateOf(now) - 3, DateOf(now) - 2}
    /\ \E e \in journal_entries :
          /\ e.user_id = response.user_id
          /\ e.updated_at > e.created_at
          /\ DateOf(e.updated_at) = DateOf(now) - 1

=============================================================================
